---- MODULE Spec2Model ----
(***************************************************************************)
(* A model of skosprovider.providers.MemoryProvider: the in-memory         *)
(* vocabulary provider and its query operations (get_by_id, get_by_uri,    *)
(* find, get_all, get_top_concepts, expand, get_top_display,               *)
(* get_children_display) over a flat list of concepts and collections.     *)
(*                                                                         *)
(* Python values are records with a `type` field: a Concept or Collection  *)
(* carries its SKOS type ("concept" / "collection"), the booleans are      *)
(* [type |-> "bool"], a returned list is [type |-> "list"], and an         *)
(* exception that leaves the operation is [type |-> "raise"].  Text (str)  *)
(* is a tuple of code points, so that str(), upper(), find() and the       *)
(* ordering of sort keys are computed and not assumed.                     *)
(***************************************************************************)
EXTENDS Integers, Sequences, FiniteSets, TLC

VARIABLES
    list,              \* MemoryProvider.list: the held entities, in order
    case_insensitive,  \* MemoryProvider.case_insensitive
    call,              \* the operation in progress and its arguments
    result             \* what the operation returned or raised

vars == <<list, case_insensitive, call, result>>

(***************************************************************************)
(* Bounds of the model.                                                    *)
(***************************************************************************)
\* the longest entity list handed to the constructor
MaxEntities == 2
\* the most ids the narrower / members / subordinate_arrays of a graph hold
MaxRefs == 2

(***************************************************************************)
(* Python values.                                                          *)
(***************************************************************************)
False == [type |-> "bool", value |-> FALSE]
True == [type |-> "bool", value |-> TRUE]
None == [type |-> "NoneType"]
PyStr(t) == [type |-> "str", value |-> t]
Bool(b) == IF b THEN True ELSE False
PyList(s) == [type |-> "list", value |-> s]
\* list(ret) of a set: the order is that of the hash table, the content is ret
IdList(S) == [type |-> "list", value |-> S]
Raise(e) == [type |-> "raise", error |-> e]
IsRaise(v) == v.type = "raise"
\* `not v` for the values the provider tests: only False is falsy
Not(v) == v.type = "bool" /\ ~v.value

(***************************************************************************)
(* Text and identifiers.  An id is an int or a str; str(id) is the decimal *)
(* text of an int and the text itself for a str.                           *)
(***************************************************************************)
IntId(n) == [k |-> "int", n |-> n]
StrId(t) == [k |-> "str", s |-> t]

RECURSIVE IntToText(_)
IntToText(n) ==
    IF n < 10 THEN <<48 + n>>
    ELSE IntToText(n \div 10) \o <<48 + (n % 10)>>

Str(id) == IF id.k = "int" THEN IntToText(id.n) ELSE id.s

\* str.upper() on the ASCII letters
Upper(t) == [i \in 1..Len(t) |-> IF t[i] >= 97 /\ t[i] <= 122 THEN t[i] - 32 ELSE t[i]]

\* str.find(sub): the lowest 0-based index where sub occurs, -1 when nowhere
TextFind(t, sub) ==
    LET at == {i \in 0..(Len(t) - Len(sub)) :
                  \A j \in 1..Len(sub) : t[i + j] = sub[j]}
    IN IF at = {} THEN -1 ELSE CHOOSE i \in at : \A j \in at : i <= j

\* the order of str: lexicographic on code points
RECURSIVE TextLess(_, _)
TextLess(a, b) ==
    IF b = <<>> THEN FALSE
    ELSE IF a = <<>> THEN TRUE
    ELSE IF Head(a) # Head(b) THEN Head(a) < Head(b)
    ELSE TextLess(Tail(a), Tail(b))

(***************************************************************************)
(* The entity graph: skos.Concept and skos.Collection, with the attributes *)
(* the provider reads.  Relations hold ids, never entities.                *)
(***************************************************************************)
Concept(id, uri, labels, broader, narrower, member_of, subordinate_arrays) ==
    [type |-> "concept", id |-> id, uri |-> uri, labels |-> labels,
     broader |-> broader, narrower |-> narrower, member_of |-> member_of,
     subordinate_arrays |-> subordinate_arrays]

Collection(id, uri, labels, members, member_of, superordinates) ==
    [type |-> "collection", id |-> id, uri |-> uri, labels |-> labels,
     members |-> members, member_of |-> member_of,
     superordinates |-> superordinates]

Label(text, type, language) == [label |-> text, type |-> type, language |-> language]

(***************************************************************************)
(* MemoryProvider.get_by_id / get_by_uri: the first entity of the list     *)
(* whose id (uri), as a str, equals the str of the argument; else False.   *)
(***************************************************************************)
\* the first of the positions `hits` a scan in list order stops at, 0 for none
FirstIndex(hits) ==
    IF hits = {} THEN 0 ELSE CHOOSE i \in hits : \A j \in hits : i <= j

get_by_id_raw(l, id) ==
    LET i == FirstIndex({j \in 1..Len(l) : l[j].id = id})
    IN IF i = 0 THEN False ELSE l[i]

get_by_id(l, id) ==
    LET s == Str(id)
        i == FirstIndex({j \in 1..Len(l) : Str(l[j].id) = s})
    IN IF i = 0 THEN False ELSE l[i]

get_by_uri(l, uri) ==
    LET i == FirstIndex({j \in 1..Len(l) : l[j].uri = uri})
    IN IF i = 0 THEN False ELSE l[i]

(***************************************************************************)
(* MemoryProvider.expand: plain recursion over narrower / members, with no *)
(* record of the ids already visited.  `stack` holds the ids whose expand  *)
(* calls are in progress: a call for an id already on the stack repeats    *)
(* the call above it and so never returns; Python ends it with a           *)
(* RecursionError.  set(False), for a child id no entity has, is a         *)
(* TypeError.                                                              *)
(***************************************************************************)
RECURSIVE expand_rec(_, _, _), expand_children(_, _, _, _)
expand_rec(l, id, stack) ==
    LET s == Str(id)
        i == FirstIndex({j \in 1..Len(l) : Str(l[j].id) = s})
    IN IF i = 0 THEN False
       ELSE IF s \in stack THEN Raise("RecursionError")
       ELSE IF l[i].type = "concept"
            THEN expand_children(l, l[i].narrower, {l[i].id}, stack \cup {s})
            ELSE expand_children(l, l[i].members, {}, stack \cup {s})

expand_children(l, children, ret, stack) ==
    IF children = <<>> THEN IdList(ret)
    ELSE LET r == expand_rec(l, Head(children), stack)
         IN IF IsRaise(r) THEN r
            ELSE IF Not(r) THEN Raise("TypeError")
            ELSE expand_children(l, Tail(children), ret \cup r.value, stack)

expand_unknown_as_empty(l, id) ==
    IF Not(get_by_id(l, id)) THEN IdList({}) ELSE expand_rec(l, id, {})

expand(l, id) == expand_rec(l, id, {})

(***************************************************************************)
(* skos.label and the entities' label() / _sortkey(): the label shown for  *)
(* a language, and the key an entity is sorted on.  First match in list    *)
(* order: a prefLabel of the language, a label of the language, a          *)
(* prefLabel, any label; None without labels.  For a sortlabel the         *)
(* sortLabel of the language comes before that chain.                      *)
(***************************************************************************)
label(labels, language, sortLabel) ==
    LET s == IF sortLabel
             THEN FirstIndex({j \in 1..Len(labels) : labels[j].type = "sortLabel" /\ labels[j].language = language})
             ELSE 0
        a == FirstIndex({j \in 1..Len(labels) : labels[j].type = "prefLabel" /\ labels[j].language = language})
        b == FirstIndex({j \in 1..Len(labels) : labels[j].language = language})
        c == FirstIndex({j \in 1..Len(labels) : labels[j].type = "prefLabel"})
    IN IF labels = <<>> THEN None
       ELSE IF s # 0 THEN labels[s]
       ELSE IF a # 0 THEN labels[a]
       ELSE IF b # 0 THEN labels[b]
       ELSE IF c # 0 THEN labels[c]
       ELSE labels[1]

_sortkey(c, sort, language) ==
    IF sort = "id" THEN Str(c.id)
    ELSE LET lb == label(c.labels, language, sort = "sortlabel")
         IN IF lb = None THEN <<>> ELSE lb.label

(***************************************************************************)
(* The keyword arguments of the list operations.                           *)
(***************************************************************************)
_get_language(kwargs) ==
    IF "language" \in DOMAIN kwargs THEN kwargs["language"] ELSE "en"

_get_sort(kwargs) ==
    IF "sort" \in DOMAIN kwargs THEN kwargs["sort"] ELSE "None"

_get_sort_order(kwargs) ==
    IF "sort_order" \in DOMAIN kwargs THEN kwargs["sort_order"] ELSE "asc"

(***************************************************************************)
(* list.sort(key=..., reverse=...): a stable sort; with reverse the keys   *)
(* descend and elements with equal keys still keep their original order.   *)
(***************************************************************************)
Before(x, y, sort, language, reverse) ==
    IF reverse
    THEN TextLess(_sortkey(y, sort, language), _sortkey(x, sort, language))
    ELSE TextLess(_sortkey(x, sort, language), _sortkey(y, sort, language))

RECURSIVE Insert(_, _, _, _, _)
Insert(acc, x, sort, language, reverse) ==
    IF acc = <<>> THEN <<x>>
    ELSE IF Before(x, Head(acc), sort, language, reverse) THEN <<x>> \o acc
    ELSE <<Head(acc)>> \o Insert(Tail(acc), x, sort, language, reverse)

RECURSIVE list_sort(_, _, _, _)
list_sort(s, sort, language, reverse) ==
    IF s = <<>> THEN <<>>
    ELSE Insert(list_sort(SubSeq(s, 1, Len(s) - 1), sort, language, reverse),
                s[Len(s)], sort, language, reverse)

Reverse(s) == [i \in 1..Len(s) |-> s[Len(s) + 1 - i]]

\* every element can be asked for its _sortkey: False, an unresolved child, cannot
HasSortkey(s) == \A i \in 1..Len(s) : s[i].type \in {"concept", "collection"}

(***************************************************************************)
(* VocabularyProvider._sort: ret is the returned list (or the exception),  *)
(* arg is the list the caller passed, as the call leaves it.               *)
(***************************************************************************)
_sort_in_place(concepts, sort, language, reverse) ==
    IF sort = "None" THEN [ret |-> PyList(concepts), arg |-> concepts]
    ELSE IF ~HasSortkey(concepts)
         THEN [ret |-> Raise("AttributeError"), arg |-> concepts]
    ELSE LET sorted == list_sort(concepts, sort, language, reverse)
         IN [ret |-> PyList(sorted), arg |-> sorted]

_sort_then_reverse(concepts, sort, language, reverse) ==
    IF sort = "None" THEN [ret |-> PyList(concepts), arg |-> concepts]
    ELSE IF ~HasSortkey(concepts)
         THEN [ret |-> Raise("AttributeError"), arg |-> concepts]
    ELSE LET asc == list_sort(concepts, sort, language, FALSE)
         IN [ret |-> PyList(IF reverse THEN Reverse(asc) ELSE asc), arg |-> concepts]

_sort(concepts, sort, language, reverse) ==
    LET sorted == concepts
    IN IF sort = "None" THEN [ret |-> PyList(sorted), arg |-> concepts]
       ELSE IF ~HasSortkey(sorted)
            THEN [ret |-> Raise("AttributeError"), arg |-> concepts]
       ELSE [ret |-> PyList(list_sort(sorted, sort, language, reverse)),
             arg |-> concepts]

(***************************************************************************)
(* MemoryProvider._get_find_dict, and the same dict built inline by the    *)
(* display operations: the summary of one entity.                          *)
(***************************************************************************)
_get_find_dict(c, language) ==
    [id |-> c.id, uri |-> c.uri, type |-> c.type,
     label |-> IF label(c.labels, "any", FALSE) = None THEN None
               ELSE PyStr(label(c.labels, language, FALSE).label)]

\* [dict(c) for c in sorted]: an AttributeError where c is False
Summaries(sorted, language) ==
    IF IsRaise(sorted) THEN sorted
    ELSE IF ~HasSortkey(sorted.value) THEN Raise("AttributeError")
    ELSE PyList([i \in 1..Len(sorted.value) |-> _get_find_dict(sorted.value[i], language)])

(***************************************************************************)
(* MemoryProvider.find.  A query is a dict: a function whose domain is the *)
(* set of keys that are present.                                           *)
(***************************************************************************)
\* the query as given, its type kept whatever it is
_normalise_query_keep(query) == query

_normalise_query(query) ==
    IF "type" \in DOMAIN query /\ query["type"] \notin {"concept", "collection"}
    THEN [k \in DOMAIN query \ {"type"} |-> query[k]]
    ELSE query

\* finder(l, query) of _include_in_find
finder(l, query, ci) ==
    IF ~ci THEN TextFind(l.label, query["label"])
    ELSE TextFind(Upper(l.label), Upper(query["label"]))

\* the members the collection filter tests against, or the exception
find_members(l, query) ==
    LET coll == get_by_id(l, query["collection"].id)
    IN IF Not(coll) \/ coll.type # "collection" THEN Raise("ValueError")
       ELSE IF "depth" \in DOMAIN query["collection"] /\ query["collection"].depth = "all"
            THEN expand(l, coll.id)
            ELSE PyList({coll.members[i] : i \in 1..Len(coll.members)})

_include_in_find(l, c, query, ci) ==
    LET byType == IF "type" \in DOMAIN query THEN query["type"] = c.type ELSE TRUE
        byLabel == IF byType /\ "label" \in DOMAIN query
                   THEN \E i \in 1..Len(c.labels) : finder(c.labels[i], query, ci) >= 0
                   ELSE byType
    IN IF byLabel /\ "collection" \in DOMAIN query
       THEN LET members == find_members(l, query)
            IN IF IsRaise(members) THEN members
               ELSE Bool(\E id \in members.value : Str(id) = Str(c.id))
       ELSE Bool(byLabel)

\* [c for c in self.list if self._include_in_find(c, query)]
RECURSIVE find_filtered(_, _, _, _)
find_filtered(l, cs, query, ci) ==
    IF cs = <<>> THEN PyList(<<>>)
    ELSE LET include == _include_in_find(l, Head(cs), query, ci)
         IN IF IsRaise(include) THEN include
            ELSE LET rest == find_filtered(l, Tail(cs), query, ci)
                 IN IF IsRaise(rest) THEN rest
                    ELSE PyList((IF include.value THEN <<Head(cs)>> ELSE <<>>) \o rest.value)

find(l, ci, query, kwargs) ==
    LET filtered == find_filtered(l, l, _normalise_query(query), ci)
    IN IF IsRaise(filtered) THEN filtered
       ELSE Summaries(_sort(filtered.value, _get_sort(kwargs), _get_language(kwargs),
                            _get_sort_order(kwargs) = "desc").ret,
                      _get_language(kwargs))

(***************************************************************************)
(* get_all, get_top_concepts, get_top_display, get_children_display.       *)
(***************************************************************************)
\* get_all hands self.list itself to _sort
get_all_sort(l, kwargs) ==
    _sort(l, _get_sort(kwargs), _get_language(kwargs), _get_sort_order(kwargs) = "desc")

get_all(l, kwargs) == Summaries(get_all_sort(l, kwargs).ret, _get_language(kwargs))

top_concepts(l) == SelectSeq(l, LAMBDA c : c.type = "concept" /\ Len(c.broader) = 0)

get_top_concepts(l, kwargs) ==
    Summaries(_sort(top_concepts(l), _get_sort(kwargs), _get_language(kwargs),
                    _get_sort_order(kwargs) = "desc").ret,
              _get_language(kwargs))

\* the roots of the semantic tree alone: what top_display would be if
\* membership of a collection did not count
top_display_by_parent_only(l) ==
    SelectSeq(l, LAMBDA c :
        \/ (c.type = "concept" /\ Len(c.broader) = 0)
        \/ (c.type = "collection" /\ Len(c.superordinates) = 0))

top_display(l) ==
    SelectSeq(l, LAMBDA c :
        \/ (c.type = "concept" /\ Len(c.broader) = 0 /\ Len(c.member_of) = 0)
        \/ (c.type = "collection" /\ Len(c.superordinates) = 0 /\ Len(c.member_of) = 0))

get_top_display(l, kwargs) ==
    Summaries(_sort(top_display(l), _get_sort(kwargs), _get_language(kwargs),
                    _get_sort_order(kwargs) = "desc").ret,
              _get_language(kwargs))

display_children(c) ==
    IF c.type = "concept"
    THEN IF Len(c.subordinate_arrays) = 0 THEN c.narrower ELSE c.subordinate_arrays
    ELSE c.members

get_children_display(l, id, kwargs) ==
    LET c == get_by_id(l, id)
    IN IF Not(c) THEN False
       ELSE LET dc == [i \in 1..Len(display_children(c)) |->
                          get_by_id(l, display_children(c)[i])]
            IN Summaries(_sort(dc, _get_sort(kwargs), _get_language(kwargs),
                               _get_sort_order(kwargs) = "desc").ret,
                         _get_language(kwargs))

(***************************************************************************)
(* The graphs handed to the constructor.  The provider takes the list as   *)
(* it is: relations may form cycles and may name ids no entity has.  Ids   *)
(* are unique as strings (get_by_id's documented assumption) and so are    *)
(* uris; a uri is only ever compared for equality, so the entity at        *)
(* position p carries the p-th uri.  One part of the data model varies at  *)
(* a time, the rest stays at the constructors' defaults.                   *)
(***************************************************************************)
Uri(p) == <<117>> \o IntToText(p)
Ref(r) == StrId(IntToText(r))
Refs(n) == {Ref(r) : r \in 1..(n + 1)}

\* ids 1, 2, ... as ints, or n, n-1, ... as strs
IdOf(scheme, n, p) == IF scheme = "int" THEN IntId(p) ELSE StrId(IntToText(n + 1 - p))

\* the sequences over S of length at most k
SeqsUpTo(S, k) == UNION {[1..m -> S] : m \in 0..k}

\* those of them that name no element twice
ListsUpTo(S, k) ==
    {s \in SeqsUpTo(S, k) : \A i, j \in 1..Len(s) : s[i] = s[j] => i = j}

RECURSIVE SumLen(_, _)
SumLen(f, n) == IF n = 0 THEN 0 ELSE Len(f[n]) + SumLen(f, n - 1)

Sizes == 0..MaxEntities
Types == {"concept", "collection"}

Plain(type, id, uri, labels, children) ==
    IF type = "concept"
    THEN Concept(id, uri, labels, <<>>, children, <<>>, <<>>)
    ELSE Collection(id, uri, labels, children, <<>>, <<>>)

\* hierarchies: any types, narrower / members with at most MaxRefs ids in all,
\* no id twice in one of them
HierGraphs ==
    UNION {{[p \in 1..n |-> Plain(t[p], IntId(p), Uri(p), <<>>, ch[p])] :
               t \in [1..n -> Types],
               ch \in {f \in [1..n -> ListsUpTo(Refs(n), MaxRefs)] : SumLen(f, n) <= MaxRefs}} :
           n \in Sizes}

LabelPool ==
    {<<>>,
     <<Label(<<97>>, "prefLabel", "en")>>,
     <<Label(<<98>>, "prefLabel", "en")>>,
     <<Label(<<65>>, "prefLabel", "nl")>>,
     <<Label(<<98>>, "altLabel", "en"), Label(<<97>>, "sortLabel", "en")>>}

\* labelled concepts in either id scheme, with no relations
LabelGraphs ==
    UNION {{[p \in 1..n |-> Plain("concept", IdOf(scheme, n, p), Uri(p), lb[p], <<>>)] :
               scheme \in {"int", "str"}, lb \in [1..n -> LabelPool]} :
           n \in Sizes}

Flagged(type, id, uri, parents, member_of) ==
    IF type = "concept"
    THEN Concept(id, uri, <<>>, parents, <<>>, member_of, <<>>)
    ELSE Collection(id, uri, <<>>, <<>>, member_of, parents)

\* display roots: broader / superordinates and member_of empty or not
RootGraphs ==
    UNION {{[p \in 1..n |-> Flagged(t[p], IntId(p), Uri(p), up[p], mo[p])] :
               t \in [1..n -> Types],
               up \in [1..n -> SeqsUpTo({Ref(n + 1)}, 1)],
               mo \in [1..n -> SeqsUpTo({Ref(n + 1)}, 1)]} :
           n \in Sizes}

\* display children: a first concept with narrower and subordinate_arrays
ArrayGraphs ==
    UNION {{[p \in 1..n |->
                IF p = 1
                THEN Concept(IntId(1), Uri(1), <<>>, <<>>, ch[1], <<>>, ch[2])
                ELSE Plain(t[p], IntId(p), Uri(p), <<>>, <<>>)] :
               t \in [1..n -> Types],
               ch \in {x \in ListsUpTo(Refs(n), MaxRefs) \X ListsUpTo(Refs(n), MaxRefs) :
                          Len(x[1]) + Len(x[2]) <= MaxRefs}} :
           n \in Sizes \ {0}}

Graphs == HierGraphs \cup LabelGraphs \cup RootGraphs \cup ArrayGraphs

(***************************************************************************)
(* The arguments the operations are called with.                           *)
(***************************************************************************)
IdArgs == {IntId(i) : i \in 1..(MaxEntities + 1)} \cup Refs(MaxEntities)
UriArgs == {Uri(p) : p \in 1..(MaxEntities + 1)}

\* a dict with the keys of `keys` that were given a value: v[k] is {} or {value}
Dict(keys, v) == [k \in {x \in keys : v[x] # {}} |-> CHOOSE x \in v[k] : TRUE]

Opt(S) == {{}} \cup {{x} : x \in S}

\* the keyword arguments: sort and sort_order given or not; language is left
\* to the provider's default
Kwargs ==
    {Dict({"sort", "sort_order"},
          [k \in {"sort", "sort_order"} |-> IF k = "sort" THEN s ELSE o]) :
        s \in Opt({"id", "label", "sortlabel"}), o \in Opt({"desc"})}

FindKwargs == {k \in Kwargs : DOMAIN k = {} \/ (DOMAIN k = {"sort", "sort_order"} /\ k["sort"] = "id")}

\* the ids given as a collection filter and as a display parent
ParentArgs == {IntId(i) : i \in 1..(MaxEntities + 1)}

CollectionFilters ==
    {[id |-> i] : i \in ParentArgs} \cup {[id |-> i, depth |-> "all"] : i \in ParentArgs}

Queries ==
    {Dict({"type", "label", "collection"},
          [k \in {"type", "label", "collection"} |->
              IF k = "type" THEN t ELSE IF k = "label" THEN lb ELSE co]) :
        t \in Opt({"concept", "collection", "all"}),
        lb \in Opt({<<>>, <<97>>}),
        co \in Opt(CollectionFilters)}

(***************************************************************************)
(* The state machine: the constructor, then one query at a time; each      *)
(* query runs to its return or its exception before the next is made.      *)
(***************************************************************************)
Idle == [op |-> "idle"]

Init ==
    /\ list \in Graphs
    /\ case_insensitive \in (IF list \in LabelGraphs THEN BOOLEAN ELSE {TRUE})
    /\ call = Idle
    /\ result = None

GetById ==
    \E id \in IdArgs :
        /\ call = Idle
        /\ call' = [op |-> "get_by_id", id |-> id]
        /\ result' = get_by_id(list, id)
        /\ UNCHANGED <<list, case_insensitive>>

GetByUri ==
    \E uri \in UriArgs :
        /\ call = Idle
        /\ call' = [op |-> "get_by_uri", uri |-> uri]
        /\ result' = get_by_uri(list, uri)
        /\ UNCHANGED <<list, case_insensitive>>

Find ==
    \E query \in Queries, kwargs \in FindKwargs :
        /\ call = Idle
        /\ call' = [op |-> "find", query |-> query, kwargs |-> kwargs]
        /\ result' = find(list, case_insensitive, query, kwargs)
        /\ UNCHANGED <<list, case_insensitive>>

GetAll ==
    \E kwargs \in Kwargs :
        /\ call = Idle
        /\ call' = [op |-> "get_all", kwargs |-> kwargs]
        /\ result' = get_all(list, kwargs)
        /\ list' = get_all_sort(list, kwargs).arg
        /\ UNCHANGED case_insensitive

GetTopConcepts ==
    \E kwargs \in Kwargs :
        /\ call = Idle
        /\ call' = [op |-> "get_top_concepts", kwargs |-> kwargs]
        /\ result' = get_top_concepts(list, kwargs)
        /\ UNCHANGED <<list, case_insensitive>>

Expand ==
    \E id \in IdArgs :
        /\ call = Idle
        /\ call' = [op |-> "expand", id |-> id]
        /\ result' = expand(list, id)
        /\ UNCHANGED <<list, case_insensitive>>

GetTopDisplay ==
    \E kwargs \in Kwargs :
        /\ call = Idle
        /\ call' = [op |-> "get_top_display", kwargs |-> kwargs]
        /\ result' = get_top_display(list, kwargs)
        /\ UNCHANGED <<list, case_insensitive>>

GetChildrenDisplay ==
    \E id \in ParentArgs, kwargs \in Kwargs :
        /\ call = Idle
        /\ call' = [op |-> "get_children_display", id |-> id, kwargs |-> kwargs]
        /\ result' = get_children_display(list, id, kwargs)
        /\ UNCHANGED <<list, case_insensitive>>

\* the caller takes the result; the provider is ready for the next query
Return ==
    /\ call # Idle
    /\ call' = Idle
    /\ result' = None
    /\ UNCHANGED <<list, case_insensitive>>

Next ==
    \/ GetById
    \/ GetByUri
    \/ Find
    \/ GetAll
    \/ GetTopConcepts
    \/ Expand
    \/ GetTopDisplay
    \/ GetChildrenDisplay
    \/ Return

Spec == Init /\ [][Next]_vars

\* the operations keyed by an id or a uri
NextLookup ==
    \/ GetById
    \/ GetByUri
    \/ Expand
    \/ GetChildrenDisplay
    \/ Return

SpecLookup == Init /\ [][NextLookup]_vars

\* the operations that list entities with no filter of the caller's
NextList ==
    \/ GetAll
    \/ GetTopConcepts
    \/ GetTopDisplay
    \/ Return

SpecList == Init /\ [][NextList]_vars

\* find alone
NextFind ==
    \/ Find
    \/ Return

SpecFind == Init /\ [][NextFind]_vars

(***************************************************************************)
(* Properties.                                                             *)
(***************************************************************************)
IsList(v) == v.type = "list"
Range(s) == {s[i] : i \in 1..Len(s)}
Resolves(id) == ~Not(get_by_id(list, id))
Matching(id) == {i \in 1..Len(list) : Str(list[i].id) = Str(id)}

\* C1: expand(id) comes back with a result on every graph, cyclic ones
\* included: it never ends in unbounded recursion.
C1_ExpandNeverRecursesForever ==
    call.op = "expand" => ~(IsRaise(result) /\ result.error = "RecursionError")

\* C2: find with a collection filter whose id resolves to nothing or to a
\* non-collection raises the usage error, on every graph and whatever the
\* type and label sub-filters are.
C2_BadCollectionFilterRaises ==
    (/\ call.op = "find"
     /\ "collection" \in DOMAIN call.query
     /\ LET coll == get_by_id(list, call.query["collection"].id)
        IN Not(coll) \/ coll.type # "collection")
    => (IsRaise(result) /\ result.error = "ValueError")

\* C3: for every concept c, expand(c.id) is the set {c.id} united with
\* expand(n) for each n in c.narrower; it contains c.id, and it is {c.id}
\* when narrower is empty.
C3_ExpandClosure ==
    (/\ call.op = "expand"
     /\ Resolves(call.id)
     /\ get_by_id(list, call.id).type = "concept")
    => LET c == get_by_id(list, call.id)
       IN /\ IsList(result)
          /\ c.id \in result.value
          /\ result.value =
                {c.id} \cup UNION {expand(list, n).value : n \in Range(c.narrower)}
          /\ (c.narrower = <<>> => result.value = {c.id})

\* C4: for every collection k, expand(k.id) is the union of expand(m) over
\* k.members, never contains k.id, and is empty when k has no members.
C4_CollectionExpand ==
    (/\ call.op = "expand"
     /\ Resolves(call.id)
     /\ get_by_id(list, call.id).type = "collection")
    => LET k == get_by_id(list, call.id)
       IN /\ IsList(result)
          /\ k.id \notin result.value
          /\ result.value = UNION {expand(list, m).value : m \in Range(k.members)}
          /\ (k.members = <<>> => result.value = {})

\* C5: get_by_id returns the held entity whose id, as a string, is the
\* string of the argument (so 5 and "5" name the same entity), and
\* get_by_uri returns the held entity with that uri.
C5_RoundTrip ==
    /\ call.op = "get_by_id" =>
          \A i \in Matching(call.id) : result = list[i]
    /\ call.op = "get_by_uri" =>
          \A i \in 1..Len(list) : list[i].uri = call.uri => result = list[i]

\* C5 witness: an entity with an int id, second in the list, was looked up
\* with that id written as a str.
C5_Witness ==
    /\ call.op = "get_by_id"
    /\ call.id.k = "str"
    /\ Len(list) >= 2
    /\ list[2].id.k = "int"
    /\ Str(list[2].id) = call.id.s
    /\ result = list[2]

\* the candidate sequence a list operation hands to _sort: the whole list,
\* or the entities of it that the operation selects
Candidates ==
    CASE call.op = "get_all" -> list
      [] call.op = "get_top_concepts" -> top_concepts(list)
      [] call.op = "get_top_display" -> top_display(list)

\* a list operation returned a list sorted descending
SortedDesc ==
    /\ call.op \in {"get_all", "get_top_concepts", "get_top_display"}
    /\ IsList(result)
    /\ _get_sort(call.kwargs) # "None"
    /\ _get_sort_order(call.kwargs) = "desc"

CandidateKey(i) ==
    _sortkey(Candidates[i], _get_sort(call.kwargs), _get_language(call.kwargs))

HasTie == \E i, j \in 1..Len(Candidates) : i < j /\ CandidateKey(i) = CandidateKey(j)

ReverseOfAscending ==
    Summaries(PyList(Reverse(list_sort(Candidates, _get_sort(call.kwargs),
                                       _get_language(call.kwargs), FALSE))),
              _get_language(call.kwargs))

\* C6 as stated: with sort_order "desc" the result is exactly the reverse of
\* the stably sorted ascending result, entities with equal keys included.
C6_DescIsReverseOfAscending == SortedDesc => result = ReverseOfAscending

\* C6 as amended: with sort_order "desc" the result holds the candidates in
\* descending order of sort key, entities with equal keys keep the relative
\* order they have in the candidate sequence, and the result is the reverse
\* of the ascending result when no two candidates share a key.
C6_DescKeepsTieOrder ==
    SortedDesc =>
        LET c == Candidates
            r == result.value
            Pos(x) == CHOOSE i \in 1..Len(c) : c[i].uri = x.uri
        IN /\ Len(r) = Len(c)
           /\ \A i \in 1..Len(r) :
                 /\ \E k \in 1..Len(c) : c[k].uri = r[i].uri
                 /\ r[i] = _get_find_dict(c[Pos(r[i])], _get_language(call.kwargs))
           /\ \A i, j \in 1..Len(r) : i # j => r[i].uri # r[j].uri
           /\ \A i, j \in 1..Len(r) : i < j =>
                 /\ ~TextLess(CandidateKey(Pos(r[i])), CandidateKey(Pos(r[j])))
                 /\ (CandidateKey(Pos(r[i])) = CandidateKey(Pos(r[j]))
                        => Pos(r[i]) < Pos(r[j]))
           /\ (~HasTie => result = ReverseOfAscending)

\* C6 witness: a descending sort of candidates two of which share a key; the
\* result is not the reverse of the ascending one.
C6_Witness == SortedDesc /\ HasTie /\ result # ReverseOfAscending

\* C7: no query changes the held entity list, in content or in order.
C7_ListUnchanged == [][list' = list]_vars

\* C7 witness: get_all returned the entities in another order than the list
\* holds them in.
C7_Witness ==
    /\ call.op = "get_all"
    /\ _get_sort(call.kwargs) # "None"
    /\ IsList(result)
    /\ result # Summaries(PyList(list), _get_language(call.kwargs))

\* C8: find({label: ""}) returns what find({}) returns: every entity, those
\* without labels included.
C8_EmptyLabelMatchesAll ==
    (/\ call.op = "find"
     /\ DOMAIN call.query = {"label"}
     /\ call.query["label"] = <<>>)
    => /\ IsList(result)
       /\ result = get_all(list, call.kwargs)
       /\ result = find(list, case_insensitive, [k \in {} |-> <<>>], call.kwargs)

\* C9: for an existing collection k, find({collection: {id: k}}) returns
\* exactly the entities whose id is among k.members, and with depth "all"
\* exactly those whose id is in expand(k).
C9_CollectionFilter ==
    (/\ call.op = "find"
     /\ DOMAIN call.query = {"collection"}
     /\ Resolves(call.query["collection"].id)
     /\ get_by_id(list, call.query["collection"].id).type = "collection")
    => LET k == get_by_id(list, call.query["collection"].id)
           deep == "depth" \in DOMAIN call.query["collection"]
           wanted == IF deep THEN expand(list, k.id).value ELSE Range(k.members)
       IN /\ IsList(result)
          /\ {result.value[i].id : i \in 1..Len(result.value)} =
                {list[i].id : i \in {j \in 1..Len(list) :
                                        \E m \in wanted : Str(m) = Str(list[j].id)}}

\* C10: get_by_id, get_by_uri, expand and get_children_display return False,
\* and raise nothing, for an id or uri no entity has; expand and
\* get_children_display return False exactly when get_by_id does.
C10_NotFound ==
    /\ (call.op = "get_by_id" /\ Matching(call.id) = {}) => Not(result)
    /\ (call.op = "get_by_uri" /\ \A i \in 1..Len(list) : list[i].uri # call.uri)
          => Not(result)
    /\ call.op \in {"expand", "get_children_display"} =>
          /\ Matching(call.id) = {} => Not(result)
          /\ Not(result) <=> Not(get_by_id(list, call.id))

\* C10 witness: expand was asked for an id that no entity of a non-empty
\* list has, and returned False.
C10_Witness ==
    /\ call.op = "expand"
    /\ list # <<>>
    /\ Matching(call.id) = {}
    /\ Not(result)

\* the ids expand follows from an entity, and those get_children_display shows
ChildIds(c) == IF c.type = "concept" THEN Range(c.narrower) ELSE Range(c.members)
DisplayIds(c) == Range(display_children(c))

\* some narrower, members or subordinate_arrays id is the id of no entity
Dangling ==
    \E i \in 1..Len(list) :
        \E id \in ChildIds(list[i]) \cup DisplayIds(list[i]) : Matching(id) = {}

\* the positions reached from those of S in at most n steps of narrower / members
RECURSIVE Reach(_, _)
Reach(S, n) ==
    IF n = 0 THEN S
    ELSE Reach(S \cup UNION {UNION {Matching(id) : id \in ChildIds(list[i])} : i \in S},
               n - 1)

\* no entity is among its own descendants
Acyclic ==
    \A i \in 1..Len(list) :
        i \notin Reach(UNION {Matching(id) : id \in ChildIds(list[i])}, Len(list))

\* C11: on a graph with an id among narrower, members or subordinate_arrays
\* that no entity has, expand and get_children_display of an existing id
\* return a list to which the unresolved child adds nothing, and find with
\* depth "all" returns a list or raises the usage error of a bad collection
\* filter; no other failure occurs.  Cycles are left out: the graph is
\* acyclic.
C11_DanglingChildYieldsNothing ==
    (Dangling /\ Acyclic) =>
        /\ (call.op = "expand" /\ Resolves(call.id)) =>
              LET c == get_by_id(list, call.id)
                  known == {id \in ChildIds(c) : Matching(id) # {}}
              IN /\ IsList(result)
                 /\ \A id \in result.value : Matching(id) # {}
                 /\ \A id \in known : Str(id) \in {Str(x) : x \in result.value}
        /\ (call.op = "get_children_display" /\ Resolves(call.id)) =>
              /\ IsList(result)
              /\ \A i \in 1..Len(result.value) : Matching(result.value[i].id) # {}
        /\ (/\ call.op = "find"
            /\ "collection" \in DOMAIN call.query
            /\ "depth" \in DOMAIN call.query["collection"]) =>
              \/ IsList(result)
              \/ IsRaise(result) /\ result.error = "ValueError"

\* the child sequence the data model gives an entity for display:
\* subordinate_arrays when a concept has any, else its narrower; the members
\* of a collection
ChildSeq(c) ==
    IF c.type = "collection" THEN c.members
    ELSE IF c.subordinate_arrays # <<>> THEN c.subordinate_arrays
    ELSE c.narrower

\* C12: get_children_display of an existing id returns one summary per child
\* id, the child ids being the concept's subordinate_arrays when there are
\* any and else its narrower, and a collection's members; with no sort
\* option the summaries come in the order of the child sequence.
C12_ChildrenDisplay ==
    (call.op = "get_children_display" /\ Resolves(call.id)) =>
        LET ids == ChildSeq(get_by_id(list, call.id))
        IN /\ IsList(result)
           /\ Len(result.value) = Len(ids)
           /\ {Str(result.value[i].id) : i \in 1..Len(ids)} = {Str(ids[i]) : i \in 1..Len(ids)}
           /\ (_get_sort(call.kwargs) = "None" =>
                  \A i \in 1..Len(ids) : Str(result.value[i].id) = Str(ids[i]))

\* the uris of the summaries an operation returned
ResultUris == {result.value[i].uri : i \in 1..Len(result.value)}

DisplayRoot(c) ==
    \/ (c.type = "concept" /\ c.broader = <<>> /\ c.member_of = <<>>)
    \/ (c.type = "collection" /\ c.superordinates = <<>> /\ c.member_of = <<>>)

ConceptRoot(c) == c.type = "concept" /\ c.broader = <<>>

\* C13: get_top_display returns exactly the concepts with no broader and no
\* member_of and the collections with no superordinates and no member_of;
\* get_top_concepts returns exactly the concepts with no broader and no
\* collection; every concept get_top_display returns is one get_top_concepts
\* returns.
C13_TopDisplayAndTopConcepts ==
    /\ call.op = "get_top_display" =>
          /\ IsList(result)
          /\ ResultUris = {list[i].uri : i \in {j \in 1..Len(list) : DisplayRoot(list[j])}}
          /\ Len(result.value) = Cardinality(ResultUris)
          /\ \A i \in 1..Len(result.value) :
                result.value[i].type = "concept" =>
                   \E j \in 1..Len(get_top_concepts(list, call.kwargs).value) :
                      get_top_concepts(list, call.kwargs).value[j] = result.value[i]
    /\ call.op = "get_top_concepts" =>
          /\ IsList(result)
          /\ ResultUris = {list[i].uri : i \in {j \in 1..Len(list) : ConceptRoot(list[j])}}
          /\ Len(result.value) = Cardinality(ResultUris)
          /\ \A i \in 1..Len(result.value) : result.value[i].type = "concept"

\* C13 witness: get_top_display returned a concept and left out a concept
\* that has no broader but is a member of a collection.
C13_Witness ==
    /\ call.op = "get_top_display"
    /\ IsList(result)
    /\ \E i \in 1..Len(result.value) : result.value[i].type = "concept"
    /\ \E i \in 1..Len(list) :
          /\ ConceptRoot(list[i])
          /\ list[i].member_of # <<>>
          /\ list[i].uri \notin ResultUris

\* the query without its type filter
WithoutType(query) == [k \in DOMAIN query \ {"type"} |-> query[k]]

\* C14: find({type: t}) for t concept or collection returns exactly the
\* entities of type t, all of them among those find({}) returns; a type
\* outside {concept, collection} is dropped: the result is that of the same
\* query without a type filter.
C14_TypeFilterNarrows ==
    call.op = "find" =>
        /\ (DOMAIN call.query = {"type"} /\ call.query["type"] \in Types) =>
              LET all == find(list, case_insensitive, [k \in {} |-> <<>>], call.kwargs)
              IN /\ IsList(result)
                 /\ IsList(all)
                 /\ ResultUris =
                       {list[i].uri : i \in {j \in 1..Len(list) :
                                                list[j].type = call.query["type"]}}
                 /\ Len(result.value) = Cardinality(ResultUris)
                 /\ \A i \in 1..Len(result.value) :
                       \E j \in 1..Len(all.value) : all.value[j] = result.value[i]
        /\ ("type" \in DOMAIN call.query /\ call.query["type"] \notin Types) =>
              result = find(list, case_insensitive, WithoutType(call.query), call.kwargs)

\* C14 witness: find with type "all" and a label filter, on a list where the
\* label filter keeps one entity and leaves one out, returned the one kept.
C14_Witness ==
    /\ call.op = "find"
    /\ DOMAIN call.query = {"type", "label"}
    /\ call.query["type"] = "all"
    /\ Len(list) = 2
    /\ IsList(result)
    /\ Len(result.value) = 1

====
